---- MODULE Spec2Model ----
(***************************************************************************)
(* Model of src/app/main.py: the webhook-driven Telegram relay with its    *)
(* per-chat state (conversations, user_modes) and the /webhook handler.    *)
(*                                                                         *)
(* Text is modelled as a sequence of lexical atoms (strings): the atoms    *)
(* are chosen so that every prefix the code tests for is an atom of its    *)
(* own.  Callback data is modelled by its ":"-separated fields, which is   *)
(* what str.split(":") yields.  Python dicts are functions whose DOMAIN is *)
(* the set of keys present.                                                *)
(***************************************************************************)
EXTENDS Naturals, Sequences, FiniteSets, TLC

(* ----------------------------- bounds --------------------------------- *)
\* number of updates the platform delivers in one run
MaxUpdates == 2
\* number of append_and_trim calls per chat in SpecTrim
MaxAppends == 50

Chats == {"chatA", "chatB"}
Handlers == {"h1", "h2"}

(* ------------------------ program constants --------------------------- *)
MAX_TURNS == 10
DEFAULT_MODE == "general"

\* modes.keys(), in the insertion order of the dict literal
ModeOrder == <<"general", "restaurant", "fitness", "realestate">>

modes ==
    [m \in {ModeOrder[i] : i \in 1..Len(ModeOrder)} |->
        CASE m = "general" -> "You are a helpful, concise assistant for everyday questions."
          [] m = "restaurant" -> "You are a restaurant assistant. Help users find restaurants, suggest dishes, and answer politely."
          [] m = "fitness" -> "You are a friendly fitness coach. Give workout routines, diet tips, and motivational advice."
          [] m = "realestate" -> "You are a professional real estate agent. Provide property suggestions, buying/selling advice, and market insights."]

\* Python's None (a missing key read with .get, or an absent field)
None == "None"

(* --------------------------- str methods ------------------------------ *)
\* str.title() on the atoms the program applies it to
Title(s) ==
    CASE s = "general" -> "General"
      [] s = "restaurant" -> "Restaurant"
      [] s = "fitness" -> "Fitness"
      [] s = "realestate" -> "Realestate"
      [] OTHER -> s

\* str.lower() on one atom
LowerAtom(a) ==
    CASE a = "/START" -> "/start"
      [] a = "/Reset" -> "/reset"
      [] a = "/MODE" -> "/mode"
      [] a = "[gear] Mode" -> "[gear] mode"
      [] a = "[arrows] Reset" -> "[arrows] reset"
      [] a = "Hello" -> "hello"
      [] OTHER -> a

Lower(t) == [i \in 1..Len(t) |-> LowerAtom(t[i])]

IsSpace(a) == a = " "

RECURSIVE LStrip(_)
LStrip(t) == IF t # <<>> /\ IsSpace(Head(t)) THEN LStrip(Tail(t)) ELSE t

RECURSIVE RStrip(_)
RStrip(t) ==
    IF t # <<>> /\ IsSpace(t[Len(t)]) THEN RStrip(SubSeq(t, 1, Len(t) - 1)) ELSE t

\* str.strip()
Strip(t) == RStrip(LStrip(t))

\* str.startswith(p) for a prefix p that is one atom
StartsWith(t, p) == Len(t) >= 1 /\ t[1] = p

(* ----------------------------- dicts ---------------------------------- *)
EmptyDict == [k \in {} |-> <<>>]

\* dict.pop(k, None)
Pop(d, k) == [x \in (DOMAIN d) \ {k} |-> d[x]]

\* d[k] = v
Put(d, k, v) == [x \in (DOMAIN d) \cup {k} |-> IF x = k THEN v ELSE d[x]]

\* dict.setdefault(k, v): the dict afterwards
SetDefault(d, k, v) == IF k \in DOMAIN d THEN d ELSE Put(d, k, v)

\* dict.get(k, dflt)
Get(d, k, dflt) == IF k \in DOMAIN d THEN d[k] ELSE dflt

(* ----------------------- memory and modes ----------------------------- *)
Entry(role, content) == [role |-> role, content |-> content]

\* seq[-n:]
LastN(s, n) == IF Len(s) <= n THEN s ELSE SubSeq(s, Len(s) - n + 1, Len(s))

\* get_history(chat_id): the value returned, and the dict after the setdefault
get_history(conv, chat_id) == SetDefault(conv, chat_id, <<>>)[chat_id]
after_get_history(conv, chat_id) == SetDefault(conv, chat_id, <<>>)

\* append_and_trim with the slice bound to the local name only (hist = hist[-20:])
append_and_trim_unstored(conv, chat_id, role, content) ==
    LET conv1 == after_get_history(conv, chat_id)
    IN  Put(conv1, chat_id, Append(conv1[chat_id], Entry(role, content)))

\* append_and_trim with the slice taken from the wrong end (hist[:20])
append_and_trim_keeps_oldest(conv, chat_id, role, content) ==
    LET conv1 == after_get_history(conv, chat_id)
        hist == Append(conv1[chat_id], Entry(role, content))
    IN  IF Len(hist) > MAX_TURNS * 2
        THEN Put(conv1, chat_id, SubSeq(hist, 1, MAX_TURNS * 2))
        ELSE Put(conv1, chat_id, hist)

\* append_and_trim(chat_id, role, content): the conversations dict afterwards
append_and_trim(conv, chat_id, role, content) ==
    LET conv1 == after_get_history(conv, chat_id)
        hist == Append(conv1[chat_id], Entry(role, content))
    IN  IF Len(hist) > MAX_TURNS * 2
        THEN Put(conv1, chat_id, LastN(hist, MAX_TURNS * 2))
        ELSE Put(conv1, chat_id, hist)

get_mode(um, chat_id) == Get(um, chat_id, DEFAULT_MODE)

(* ------------------------ inbound updates ----------------------------- *)
\* The JSON body of one webhook request, by the fields the handler reads:
\*   cq          "callback_query" in update
\*   cq_chat     cq["message"]["chat"]["id"], None when a key on the path is missing
\*   cq_has_data "data" in cq;  cq_data  cq["data"].split(":")
\*   msg         update.get("message") is a non-empty object
\*   msg_chat    message.get("chat", {}).get("id")
\*   has_text    isinstance(message.get("text"), str);  text  its atoms
Update(cq, cq_chat, cq_has_data, cq_data, msg, msg_chat, has_text, text) ==
    [cq |-> cq, cq_id |-> "cq-id", cq_chat |-> cq_chat, cq_has_data |-> cq_has_data,
     cq_data |-> cq_data, msg |-> msg, msg_chat |-> msg_chat,
     has_text |-> has_text, text |-> text]

EmptyUpdate == Update(FALSE, None, FALSE, <<>>, FALSE, None, FALSE, <<>>)
CallbackUpdate(chat, has_data, data) ==
    Update(TRUE, chat, has_data, data, FALSE, None, FALSE, <<>>)
MessageUpdate(chat, has_text, text) ==
    Update(FALSE, None, FALSE, <<>>, TRUE, chat, has_text, text)

\* callback data values, as str.split(":") sees them
ValidDatas == { <<"mode", "general">>, <<"mode", "fitness">>, <<"mode", "realestate">> }
OtherDatas ==
    { <<"mode", "pizza">>,            \* "mode:pizza"
      <<"mode", "fitness", "x">>,     \* "mode:fitness:x"
      <<"noop">> }                    \* "noop"
CallbackDatas == ValidDatas \cup OtherDatas

FreeTexts == { <<"hello">>, <<"[arrows] Reset">> }
CommandTexts ==
    { <<"/start">>, <<" ", "/START", " now">>, <<"/reset">>, <<"/mode">>, <<"[gear] Mode">> }
Texts == FreeTexts \cup CommandTexts

\* every shape of update, for chatA
UpdatesA ==
    {CallbackUpdate("chatA", TRUE, d) : d \in CallbackDatas}
    \cup {CallbackUpdate("chatA", FALSE, <<>>)}
    \cup {MessageUpdate("chatA", TRUE, t) : t \in Texts}
    \cup {MessageUpdate("chatA", FALSE, <<>>)}

\* the state-changing updates, for chatB
UpdatesB ==
    { CallbackUpdate("chatB", TRUE, <<"mode", "fitness">>),
      MessageUpdate("chatB", TRUE, <<"hello">>),
      MessageUpdate("chatB", TRUE, <<"/reset">>) }

\* updates that name no chat
UpdatesNoChat ==
    { EmptyUpdate,
      CallbackUpdate(None, TRUE, <<"mode", "fitness">>),
      MessageUpdate(None, TRUE, <<"hello">>) }

Updates == UpdatesA \cup UpdatesB \cup UpdatesNoChat

(* -------------------- completion service outcomes --------------------- *)
\* oai.chat.completions.create: content returned, empty content, or an exception
CompletionOutcomes ==
    { [ok |-> TRUE, content |-> <<"Hi there">>],
      [ok |-> TRUE, content |-> <<>>],
      [ok |-> FALSE, content |-> <<>>] }

\* the outcome field of a call that has not ended yet
PendingOutcome == [ok |-> FALSE, content |-> <<"(pending)">>]

ApologyText == <<"Sorry, I ran into an issue.">>
EllipsisText == <<"...">>

\* lines 189-197 with the exception text used as the reply
bot_reply_of_error_text(outcome) ==
    IF outcome.ok
    THEN (IF outcome.content # <<>> THEN outcome.content ELSE EllipsisText)
    ELSE <<"OpenAI error">>

\* lines 189-197: the try/except around the completion call
bot_reply_of(outcome) ==
    IF outcome.ok
    THEN (IF outcome.content # <<>> THEN outcome.content ELSE EllipsisText)
    ELSE ApologyText

(* ---------------------- keyboards and payloads ------------------------ *)
main_keyboard ==
    [keyboard |-> << << [text |-> <<"[gear] Mode">>], [text |-> <<"[arrows] Reset">>] >> >>,
     resize_keyboard |-> TRUE,
     one_time_keyboard |-> FALSE]

\* the list comprehension of lines 120-124 and 171-175
mode_buttons(current) ==
    [inline_keyboard |->
        [i \in 1..Len(ModeOrder) |->
            << [text |-> (IF ModeOrder[i] = current THEN <<"[check] ">> ELSE <<>>)
                          \o <<Title(ModeOrder[i])>>,
                callback_data |-> <<"mode", ModeOrder[i]>>] >>]]

\* payloads posted to TELEGRAM_API; reply_markup is <<>> for None, <<m>> otherwise
answer_callback_query(callback_query_id, text) ==
    [method |-> "answerCallbackQuery", callback_query_id |-> callback_query_id,
     text |-> text]

send_typing(chat_id) ==
    [method |-> "sendChatAction", chat_id |-> chat_id, action |-> "typing"]

send_message(chat_id, text, reply_markup) ==
    [method |-> "sendMessage", chat_id |-> chat_id, text |-> text,
     parse_mode |-> "Markdown", reply_markup |-> reply_markup]

WelcomeText ==
    <<"Hi! I'm your AI assistant. Use /reset to clear memory. Use /mode to change my role (restaurant, fitness, realestate). Default mode: General">>
ResetText == <<"Memory cleared. Fresh start!">>
ChooseModeText == <<"Choose a mode:">>
TextOnlyText == <<"I can only read text messages for now">>
ModeSwitchedText(mode_choice) == <<"Mode switched to *", Title(mode_choice), "*">>
ModeSetText(mode_choice) == <<"Mode set to ", mode_choice>>
ReplyText(mode, bot_reply) == <<"*[", Title(mode), " Mode]*">> \o bot_reply

(* ------------------------------ state --------------------------------- *)
VARIABLES
    conversations,  \* dict chat_id -> list of entries                (line 28)
    user_modes,     \* dict chat_id -> mode name                      (line 29)
    pc,             \* per handler: where the coroutine of webhook() stands
    upd,            \* per handler: the update it is handling
    outbox,         \* per handler: payloads posted to the chat platform so far
    oai_calls,      \* per handler: completion calls made: the messages passed, the outcome
    delivered,      \* number of updates delivered so far
    appended        \* per chat: every entry appended since the history was last empty

vars == <<conversations, user_modes, pc, upd, outbox, oai_calls, delivered, appended>>

\* k alternating user/assistant entries of successful turns
RECURSIVE Turns(_)
Turns(k) ==
    IF k = 0 THEN <<>>
    ELSE Turns(k - 1) \o <<Entry("user", <<"hello">>), Entry("assistant", <<"Hi there">>)>>

\* histories chatA may have when the run starts: none yet, or the one left by
\* MAX_TURNS earlier turns
InitialHistories == {Turns(k) : k \in {0, MAX_TURNS}}

HandlersIdle ==
    /\ pc = [h \in Handlers |-> "idle"]
    /\ upd = [h \in Handlers |-> EmptyUpdate]
    /\ outbox = [h \in Handlers |-> <<>>]
    /\ oai_calls = [h \in Handlers |-> <<>>]
    /\ delivered = 0

\* modes chatA may have chosen before the run starts: none, or one by a button
InitialModes == {EmptyDict, Put(EmptyDict, "chatA", "fitness")}

Init ==
    /\ HandlersIdle
    /\ user_modes \in InitialModes
    /\ \E hist \in InitialHistories :
         /\ conversations = (IF hist = <<>> THEN EmptyDict ELSE Put(EmptyDict, "chatA", hist))
         /\ appended = [c \in Chats |-> IF c = "chatA" THEN hist ELSE <<>>]

(* ------------------------- handler plumbing --------------------------- *)
\* an exception leaves webhook(): the framework answers 500
Raise(h) ==
    /\ pc' = [pc EXCEPT ![h] = "error"]
    /\ UNCHANGED <<conversations, user_modes, outbox, oai_calls, appended>>

\* return {"ok": True}
ReturnOk(h) ==
    /\ pc' = [pc EXCEPT ![h] = "done"]
    /\ UNCHANGED <<conversations, user_modes, outbox, oai_calls, appended>>

\* await <helper>(...): the payload is posted and the coroutine suspends
Await(h, payload, next) ==
    /\ outbox' = [outbox EXCEPT ![h] = Append(@, payload)]
    /\ pc' = [pc EXCEPT ![h] = next]

\* the event loop runs one coroutine at a time: no coroutine resumes and no
\* request is taken up while one is inside the blocking call of line 190
\* an event loop on which the completion call would yield to other handlers
loop_never_blocked == TRUE

loop_free == \A h \in Handlers : pc[h] # "in_completion"

\* mode_choice = callback_data.split(":")[1]
mode_choice_of(u) == u.cq_data[2]

(* ------------------- webhook(): the callback branch ------------------- *)
\* callback_data.startswith("mode:")
IsModeData(data) == Len(data) >= 2 /\ data[1] = "mode"

\* line 115 with the membership test left out
mode_always_accepted(mode_choice) == TRUE

\* line 115: mode_choice in modes
mode_is_registered(mode_choice) == mode_choice \in DOMAIN modes

\* lines 116-126 without the pop of line 117
on_mode_callback_keeps_history(h, cq_id, chat_id, mode_choice) ==
    /\ user_modes' = Put(user_modes, chat_id, mode_choice)
    /\ Await(h, answer_callback_query(cq_id, ModeSetText(mode_choice)), "await_answer")
    /\ UNCHANGED <<conversations, appended, oai_calls>>

\* lines 116-126
on_mode_callback(h, cq_id, chat_id, mode_choice) ==
    /\ user_modes' = Put(user_modes, chat_id, mode_choice)
    /\ conversations' = Pop(conversations, chat_id)
    /\ appended' = [appended EXCEPT ![chat_id] = <<>>]
    /\ Await(h, answer_callback_query(cq_id, ModeSetText(mode_choice)), "await_answer")
    /\ UNCHANGED oai_calls

\* line 127, once answer_callback_query has returned
after_answer(h, chat_id, mode_choice) ==
    /\ Await(h, send_message(chat_id, ModeSwitchedText(mode_choice), <<main_keyboard>>),
             "await_send")
    /\ UNCHANGED <<conversations, user_modes, oai_calls, appended>>

(* ------------------- webhook(): the message branch -------------------- *)
\* lines 131-142
on_message(h, u) ==
    IF ~u.msg THEN ReturnOk(h)
    ELSE IF u.msg_chat = None THEN ReturnOk(h)
    ELSE /\ Await(h, send_typing(u.msg_chat), "await_typing")
         /\ UNCHANGED <<conversations, user_modes, oai_calls, appended>>

\* lines 144-146 with the non-text message also recorded as a user entry
on_non_text_recorded(h, chat_id) ==
    /\ conversations' = append_and_trim(conversations, chat_id, "user", <<>>)
    /\ appended' = [appended EXCEPT ![chat_id] = Append(@, Entry("user", <<>>))]
    /\ Await(h, send_message(chat_id, TextOnlyText, <<>>), "await_send")
    /\ UNCHANGED <<user_modes, oai_calls>>

\* lines 144-146
on_non_text(h, chat_id) ==
    /\ Await(h, send_message(chat_id, TextOnlyText, <<>>), "await_send")
    /\ UNCHANGED <<conversations, user_modes, oai_calls, appended>>

\* lines 151-162 without the assignment of line 153
on_start_keeps_mode(h, chat_id) ==
    /\ conversations' = Pop(conversations, chat_id)
    /\ appended' = [appended EXCEPT ![chat_id] = <<>>]
    /\ Await(h, send_message(chat_id, WelcomeText, <<main_keyboard>>), "await_send")
    /\ UNCHANGED <<user_modes, oai_calls>>

\* lines 151-162
on_start(h, chat_id) ==
    /\ conversations' = Pop(conversations, chat_id)
    /\ user_modes' = Put(user_modes, chat_id, DEFAULT_MODE)
    /\ appended' = [appended EXCEPT ![chat_id] = <<>>]
    /\ Await(h, send_message(chat_id, WelcomeText, <<main_keyboard>>), "await_send")
    /\ UNCHANGED oai_calls

\* lines 164-167 with the mode reset as /start does
on_reset_resets_mode(h, chat_id) ==
    /\ conversations' = Pop(conversations, chat_id)
    /\ user_modes' = Put(user_modes, chat_id, DEFAULT_MODE)
    /\ appended' = [appended EXCEPT ![chat_id] = <<>>]
    /\ Await(h, send_message(chat_id, ResetText, <<main_keyboard>>), "await_send")
    /\ UNCHANGED oai_calls

\* lines 164-167 with the whole conversations dict cleared instead of one key
on_reset_clears_all(h, chat_id) ==
    /\ conversations' = EmptyDict
    /\ appended' = [appended EXCEPT ![chat_id] = <<>>]
    /\ Await(h, send_message(chat_id, ResetText, <<main_keyboard>>), "await_send")
    /\ UNCHANGED <<user_modes, oai_calls>>

\* lines 164-167
on_reset(h, chat_id) ==
    /\ conversations' = Pop(conversations, chat_id)
    /\ appended' = [appended EXCEPT ![chat_id] = <<>>]
    /\ Await(h, send_message(chat_id, ResetText, <<main_keyboard>>), "await_send")
    /\ UNCHANGED <<user_modes, oai_calls>>

\* lines 169-177 with the checkmark put on DEFAULT_MODE instead of get_mode(chat_id)
on_mode_command_marks_default(h, chat_id) ==
    /\ Await(h, send_message(chat_id, ChooseModeText, <<mode_buttons(DEFAULT_MODE)>>),
             "await_send")
    /\ UNCHANGED <<conversations, user_modes, oai_calls, appended>>

\* lines 169-177
on_mode_command(h, chat_id) ==
    LET current == get_mode(user_modes, chat_id) IN
    /\ Await(h, send_message(chat_id, ChooseModeText, <<mode_buttons(current)>>), "await_send")
    /\ UNCHANGED <<conversations, user_modes, oai_calls, appended>>

\* lines 183-193 with the message list built before the user entry is stored
on_free_text_call_stale_messages(h, chat_id, text) ==
    LET conv1 == append_and_trim(conversations, chat_id, "user", text)
        mode == get_mode(user_modes, chat_id)
        system_prompt == Get(modes, mode, modes[DEFAULT_MODE])
        messages == <<Entry("system", <<system_prompt>>)>> \o get_history(conversations, chat_id)
    IN  /\ conversations' = conv1
        /\ oai_calls' = [oai_calls EXCEPT
                           ![h] = Append(@, [messages |-> messages, mode |-> mode,
                                             outcome |-> PendingOutcome])]
        /\ appended' = [appended EXCEPT ![chat_id] = Append(@, Entry("user", text))]
        /\ pc' = [pc EXCEPT ![h] = "in_completion"]
        /\ UNCHANGED <<user_modes, outbox>>

\* lines 183-193: the user entry is stored and the completion call is made.
\* oai.chat.completions.create is a plain (blocking) call inside the coroutine:
\* the coroutine does not suspend, it holds the event loop until the call ends
on_free_text_call(h, chat_id, text) ==
    LET conv1 == append_and_trim(conversations, chat_id, "user", text)
        mode == get_mode(user_modes, chat_id)
        system_prompt == Get(modes, mode, modes[DEFAULT_MODE])
        messages == <<Entry("system", <<system_prompt>>)>> \o get_history(conv1, chat_id)
    IN  /\ conversations' = conv1
        /\ oai_calls' = [oai_calls EXCEPT
                           ![h] = Append(@, [messages |-> messages, mode |-> mode,
                                             outcome |-> PendingOutcome])]
        /\ appended' = [appended EXCEPT ![chat_id] = Append(@, Entry("user", text))]
        /\ pc' = [pc EXCEPT ![h] = "in_completion"]
        /\ UNCHANGED <<user_modes, outbox>>

\* lines 194-204 without the append of line 199
on_completion_return_unrecorded(h, chat_id, outcome) ==
    LET call == oai_calls[h][Len(oai_calls[h])]
        bot_reply == bot_reply_of(outcome)
    IN  /\ oai_calls' = [oai_calls EXCEPT ![h][Len(oai_calls[h])].outcome = outcome]
        /\ Await(h, send_message(chat_id, ReplyText(call.mode, bot_reply), <<main_keyboard>>),
                 "await_send")
        /\ UNCHANGED <<conversations, appended, user_modes>>

\* lines 194-204: the call ends with an outcome; the assistant entry is stored
\* and the reply is sent, labelled with the local mode of line 184
on_completion_return(h, chat_id, outcome) ==
    LET call == oai_calls[h][Len(oai_calls[h])]
        bot_reply == bot_reply_of(outcome)
    IN  /\ conversations' = append_and_trim(conversations, chat_id, "assistant", bot_reply)
        /\ oai_calls' = [oai_calls EXCEPT ![h][Len(oai_calls[h])].outcome = outcome]
        /\ appended' = [appended EXCEPT ![chat_id] = Append(@, Entry("assistant", bot_reply))]
        /\ Await(h, send_message(chat_id, ReplyText(call.mode, bot_reply), <<main_keyboard>>),
                 "await_send")
        /\ UNCHANGED user_modes

\* the command tests of lines 151, 164 and 169
IsStart(text) == StartsWith(Lower(Strip(text)), "/start")
IsReset(text) == StartsWith(Lower(Strip(text)), "/reset")
\* line 169 with only "/mode" in the list
IsModeCommand_slash_only(text) == Lower(Strip(text)) = <<"/mode">>
IsModeCommand(text) == Lower(Strip(text)) \in {<<"/mode">>, <<"[gear] mode">>}

\* lines 144-204, once send_typing has returned
after_typing(h) ==
    LET u == upd[h]
        chat_id == u.msg_chat
    IN  IF ~u.has_text THEN on_non_text(h, chat_id)
        ELSE IF IsStart(u.text) THEN on_start(h, chat_id)
        ELSE IF IsReset(u.text) THEN on_reset(h, chat_id)
        ELSE IF IsModeCommand(u.text) THEN on_mode_command(h, chat_id)
        ELSE on_free_text_call(h, chat_id, u.text)

(* ------------------------------ actions ------------------------------- *)
\* lines 103-142: the platform posts update u, the framework starts webhook()
\* for it, and the coroutine runs from the parsed body to its first await or return
Dispatch(h, u) ==
    IF u.cq
    THEN IF u.cq_chat = None \/ ~u.cq_has_data
         THEN Raise(h)                        \* KeyError at line 109 or 110
         ELSE IF IsModeData(u.cq_data)
              THEN IF mode_is_registered(mode_choice_of(u))
                   THEN on_mode_callback(h, u.cq_id, u.cq_chat, mode_choice_of(u))
                   ELSE ReturnOk(h)           \* line 128
              ELSE on_message(h, u)
    ELSE on_message(h, u)

\* await send_typing(...) ends: it returns, or httpx raises
TypingReturns(h) ==
    /\ loop_free
    /\ pc[h] = "await_typing"
    /\ after_typing(h)
    /\ UNCHANGED <<upd, delivered>>

TypingFails(h) ==
    /\ loop_free
    /\ pc[h] = "await_typing"
    /\ Raise(h)
    /\ UNCHANGED <<upd, delivered>>

\* await answer_callback_query(...) ends
AnswerReturns(h) ==
    /\ loop_free
    /\ pc[h] = "await_answer"
    /\ after_answer(h, upd[h].cq_chat, mode_choice_of(upd[h]))
    /\ UNCHANGED <<upd, delivered>>

AnswerFails(h) ==
    /\ loop_free
    /\ pc[h] = "await_answer"
    /\ Raise(h)
    /\ UNCHANGED <<upd, delivered>>

\* the blocking completion call of line 190 ends
CompletionReturns(h) ==
    /\ pc[h] = "in_completion"
    /\ \E outcome \in CompletionOutcomes :
         on_completion_return(h, upd[h].msg_chat, outcome)
    /\ UNCHANGED <<upd, delivered>>

\* the last await send_message(...) ends; then return {"ok": True}
SendReturns(h) ==
    /\ loop_free
    /\ pc[h] = "await_send"
    /\ ReturnOk(h)
    /\ UNCHANGED <<upd, delivered>>

SendFails(h) ==
    /\ loop_free
    /\ pc[h] = "await_send"
    /\ Raise(h)
    /\ UNCHANGED <<upd, delivered>>

\* the response goes back to the platform and the coroutine is gone
Respond(h) ==
    /\ loop_free
    /\ pc[h] \in {"done", "error"}
    /\ pc' = [pc EXCEPT ![h] = "idle"]
    /\ upd' = [upd EXCEPT ![h] = EmptyUpdate]
    /\ outbox' = [outbox EXCEPT ![h] = <<>>]
    /\ oai_calls' = [oai_calls EXCEPT ![h] = <<>>]
    /\ UNCHANGED <<conversations, user_modes, delivered, appended>>

Receive(h, u) ==
    /\ loop_free
    /\ pc[h] = "idle"
    /\ h = "h2" => pc["h1"] # "idle"      \* idle handlers are interchangeable
    /\ delivered < MaxUpdates
    /\ upd' = [upd EXCEPT ![h] = u]
    /\ delivered' = delivered + 1
    /\ Dispatch(h, u)

Next ==
    \/ \E h \in Handlers, u \in Updates : Receive(h, u)
    \/ \E h \in Handlers : TypingReturns(h)
    \/ \E h \in Handlers : TypingFails(h)
    \/ \E h \in Handlers : CompletionReturns(h)
    \/ \E h \in Handlers : AnswerReturns(h)
    \/ \E h \in Handlers : AnswerFails(h)
    \/ \E h \in Handlers : SendReturns(h)
    \/ \E h \in Handlers : SendFails(h)
    \/ \E h \in Handlers : Respond(h)

Spec == Init /\ [][Next]_vars

(* ------------- append_and_trim on its own: SpecTrim ------------------- *)
\* the n-th entry appended to a chat: roles alternate as in a conversation,
\* and every content is different
NthEntry(n) == Entry(IF n % 2 = 1 THEN "user" ELSE "assistant", <<ToString(n)>>)

InitTrim ==
    /\ HandlersIdle
    /\ user_modes = EmptyDict
    /\ conversations = EmptyDict
    /\ appended = [c \in Chats |-> <<>>]

TrimAppend(c) ==
    LET n == Len(appended[c]) + 1
        e == NthEntry(n)
    IN  /\ n <= MaxAppends
        /\ conversations' = append_and_trim(conversations, c, e.role, e.content)
        /\ appended' = [appended EXCEPT ![c] = Append(@, e)]
        /\ UNCHANGED <<user_modes, pc, upd, outbox, oai_calls, delivered>>

NextTrim == \E c \in Chats : TrimAppend(c)

SpecTrim == InitTrim /\ [][NextTrim]_vars

(* ============================ properties ============================== *)
\* the history a chat effectively has: the stored list, or none
Hist(c) == Get(conversations, c, <<>>)

\* C1: in every reachable state, whatever updates were handled for whatever
\* chats, every chat's stored history has at most 2 * MAX_TURNS = 20 entries.
C1_HistoryBounded ==
    /\ 2 * MAX_TURNS = 20
    /\ \A c \in DOMAIN conversations : Len(conversations[c]) <= 20

\* a chat whose history is full and has already lost entries to trimming
C1_Witness ==
    \E c \in DOMAIN conversations :
        Len(conversations[c]) = 20 /\ Len(appended[c]) > 20

\* C2: after n appends to an empty history the stored history is exactly the
\* last min(n, 20) appended entries, in the order they were appended.
C2_KeepsMostRecent ==
    \A c \in Chats :
        LET n == Len(appended[c])
            k == IF n < 20 THEN n ELSE 20
        IN  /\ Len(Hist(c)) = k
            /\ \A i \in 1..k : Hist(c)[i] = appended[c][n - k + i]

\* 25 user+assistant pairs were appended: pairs 16..25 (entries 31..50) remain
C2_Witness ==
    \E c \in Chats :
        /\ Len(appended[c]) = 50
        /\ Len(Hist(c)) = 20
        /\ Hist(c)[1] = Entry("user", <<"31">>)
        /\ Hist(c)[2] = Entry("assistant", <<"32">>)
        /\ Hist(c)[20] = Entry("assistant", <<"50">>)

(* ---- steps of one handler, as seen from outside ---- *)
\* handler h takes up an update and runs to its first await or return
Received(h) == pc[h] = "idle" /\ pc'[h] # "idle"
\* send_typing has returned and handler h processes its message
Resumed(h) == pc[h] = "await_typing" /\ pc'[h] \in {"await_send", "in_completion"}

RegisteredModes == {"general", "restaurant", "fitness", "realestate"}
Capitalised ==
    [m \in RegisteredModes |->
        CASE m = "general" -> "General" [] m = "restaurant" -> "Restaurant"
          [] m = "fitness" -> "Fitness" [] m = "realestate" -> "Realestate"]

LastOf(s) == s[Len(s)]

\* C3: a callback with data mode:<name>, <name> registered, leaves the chat
\* with mode <name> and an empty history whatever they were before, and a
\* handling of it that returns has sent the chat a message whose text
\* contains the capitalised mode name.
C3_ModeSwitch ==
    [][\A h \in Handlers, c \in Chats, m \in RegisteredModes :
         LET u == CallbackUpdate(c, TRUE, <<"mode", m>>) IN
         /\ (Received(h) /\ upd'[h] = u) =>
                /\ Get(user_modes', c, None) = m
                /\ Get(conversations', c, <<>>) = <<>>
         /\ (pc'[h] = "done" /\ upd'[h] = u) =>
                \E i \in 1..Len(outbox'[h]) :
                    /\ outbox'[h][i].method = "sendMessage"
                    /\ outbox'[h][i].chat_id = c
                    /\ \E j \in 1..Len(outbox'[h][i].text) :
                           outbox'[h][i].text[j] = Capitalised[m]
      ]_vars

\* the "realestate" button was handled to the end for chatA
C3_Witness ==
    \E h \in Handlers :
        /\ pc[h] = "done"
        /\ upd[h] = CallbackUpdate("chatA", TRUE, <<"mode", "realestate">>)
        /\ Get(user_modes, "chatA", None) = "realestate"
        /\ Hist("chatA") = <<>>
        /\ Len(outbox[h]) = 2
        /\ outbox[h][2].text = <<"Mode switched to *", "Realestate", "*">>

\* C4: handling /reset empties the chat's history and leaves the chat's
\* stored mode exactly as it was.
C4_ResetKeepsMode ==
    [][\A h \in Handlers, c \in Chats :
         (Resumed(h) /\ upd[h] = MessageUpdate(c, TRUE, <<"/reset">>)) =>
             /\ Get(conversations', c, <<>>) = <<>>
             /\ Get(user_modes', c, None) = Get(user_modes, c, None)
      ]_vars

\* /reset was handled for chatA, whose mode is still the one chosen before
C4_Witness ==
    \E h \in Handlers :
        /\ pc[h] = "done"
        /\ upd[h] = MessageUpdate("chatA", TRUE, <<"/reset">>)
        /\ Get(user_modes, "chatA", None) = "fitness"
        /\ "chatA" \notin DOMAIN conversations

\* C5: a callback with data mode:<name>, <name> not registered, changes no
\* history and no mode, posts nothing to the platform and returns the
\* acknowledgement.  <name> is everything after "mode:".
C5_InvalidModeIgnored ==
    [][\A h \in Handlers, c \in Chats, d \in CallbackDatas :
         (/\ Received(h)
          /\ upd'[h] = CallbackUpdate(c, TRUE, d)
          /\ IsModeData(d)
          /\ Tail(d) \notin {<<m>> : m \in RegisteredModes}) =>
             /\ conversations' = conversations
             /\ user_modes' = user_modes
             /\ outbox'[h] = <<>>
             /\ pc'[h] = "done"
      ]_vars

\* C6: handling /start leaves the chat with mode "general" and an empty
\* history, and sends the welcome text with the persistent keyboard.
C6_Start ==
    [][\A h \in Handlers, c \in Chats, t \in {<<"/start">>, <<" ", "/START", " now">>} :
         (Resumed(h) /\ upd[h] = MessageUpdate(c, TRUE, t)) =>
             /\ Get(user_modes', c, None) = "general"
             /\ Get(conversations', c, <<>>) = <<>>
             /\ LastOf(outbox'[h]).method = "sendMessage"
             /\ LastOf(outbox'[h]).chat_id = c
             /\ LastOf(outbox'[h]).text = WelcomeText
             /\ LastOf(outbox'[h]).reply_markup = <<main_keyboard>>
      ]_vars

\* /start was handled for chatA
C6_Witness ==
    \E h \in Handlers :
        /\ pc[h] = "done"
        /\ upd[h] = MessageUpdate("chatA", TRUE, <<" ", "/START", " now">>)
        /\ Get(user_modes, "chatA", None) = "general"
        /\ "chatA" \notin DOMAIN conversations
        /\ LastOf(outbox[h]).text = WelcomeText

\* C7: when the completion service fails on a free-form message, the handler
\* goes on (it does not fail), the chat's history ends with the user's entry
\* followed by an assistant entry holding the fixed apology, and the reply
\* sent is the mode label followed by that apology.
C7_CompletionFailure ==
    [][\A h \in Handlers, c \in Chats :
         (/\ pc[h] = "in_completion"
          /\ pc'[h] # "in_completion"
          /\ upd[h].msg_chat = c
          /\ ~LastOf(oai_calls'[h]).outcome.ok) =>
             LET hist == Get(conversations', c, <<>>)
                 n == Len(hist)
                 p == LastOf(outbox'[h])
             IN  /\ pc'[h] = "await_send"
                 /\ n >= 2
                 /\ hist[n - 1] = Entry("user", upd[h].text)
                 /\ hist[n] = Entry("assistant", <<"Sorry, I ran into an issue.">>)
                 /\ p.method = "sendMessage"
                 /\ p.chat_id = c
                 /\ Len(p.text) = 4
                 /\ p.text[4] = "Sorry, I ran into an issue."
      ]_vars

\* a turn whose completion call failed was handled to the end
C7_Witness ==
    \E h \in Handlers :
        /\ pc[h] = "done"
        /\ upd[h] = MessageUpdate("chatA", TRUE, <<"hello">>)
        /\ Len(oai_calls[h]) = 1
        /\ ~oai_calls[h][1].outcome.ok
        /\ Hist("chatA") = <<Entry("user", <<"hello">>),
                             Entry("assistant", <<"Sorry, I ran into an issue.">>)>>
        /\ LastOf(outbox[h]).text[4] = "Sorry, I ran into an issue."

\* C8: handling a message without text sends the fixed "text only" notice,
\* changes no history and no mode, and the handler never calls the
\* completion service.
C8_NonText ==
    [][\A h \in Handlers, c \in Chats :
         LET u == MessageUpdate(c, FALSE, <<>>) IN
         /\ (Resumed(h) /\ upd[h] = u) =>
                /\ conversations' = conversations
                /\ user_modes' = user_modes
                /\ LastOf(outbox'[h]).method = "sendMessage"
                /\ LastOf(outbox'[h]).chat_id = c
                /\ LastOf(outbox'[h]).text = <<"I can only read text messages for now">>
         /\ (upd'[h] = u) => oai_calls'[h] = <<>>
      ]_vars

\* a photo was handled to the end for chatA, whose full history is untouched
C8_Witness ==
    \E h \in Handlers :
        /\ pc[h] = "done"
        /\ upd[h] = MessageUpdate("chatA", FALSE, <<>>)
        /\ Len(outbox[h]) = 2
        /\ outbox[h][2].text = TextOnlyText
        /\ oai_calls[h] = <<>>
        /\ Hist("chatA") = Turns(MAX_TURNS)

\* C9: no update by itself makes the handler end in an error: a handler that
\* ends in an error has at least called the platform (and that call failed).
C9_NoUpdateFailsHandler ==
    \A h \in Handlers : pc[h] = "error" => outbox[h] # <<>>

\* C10: the stored mode of every chat, and so its effective mode, is one of
\* the four registered modes.
C10_ModesRegistered ==
    /\ \A c \in DOMAIN user_modes : user_modes[c] \in RegisteredModes
    /\ \A c \in Chats : get_mode(user_modes, c) \in RegisteredModes

\* the unregistered "pizza" button was handled for a chat that had chosen a mode
C10_Witness ==
    \E h \in Handlers :
        /\ pc[h] = "done"
        /\ upd[h] = CallbackUpdate("chatA", TRUE, <<"mode", "pizza">>)
        /\ Get(user_modes, "chatA", None) = "realestate"

\* C5, for names without a ":" (mode:pizza): such a callback is ignored
C5_ColonFreeNameIgnored ==
    [][\A h \in Handlers, c \in Chats, d \in CallbackDatas :
         (/\ Received(h)
          /\ upd'[h] = CallbackUpdate(c, TRUE, d)
          /\ IsModeData(d)
          /\ Len(d) = 2
          /\ d[2] \notin RegisteredModes) =>
             /\ conversations' = conversations
             /\ user_modes' = user_modes
             /\ outbox'[h] = <<>>
             /\ pc'[h] = "done"
      ]_vars

\* C11: while one handler waits on the completion service, every other
\* handler that is suspended at an await can be resumed.
C11_OthersNotBlocked ==
    \A h \in Handlers, g \in Handlers :
        (/\ pc[h] = "in_completion"
         /\ g # h
         /\ pc[g] \in {"await_typing", "await_answer", "await_send"}) =>
            ENABLED (TypingReturns(g) \/ AnswerReturns(g) \/ SendReturns(g))

\* C12: a failure of the typing-indicator send is ignored: a handler waiting
\* for send_typing never ends in an error from there, it goes on with the
\* rest of the processing.
C12_TypingFailureIgnored ==
    [][\A h \in Handlers : pc[h] = "await_typing" => pc'[h] # "error"]_vars

\* C13: after a valid mode callback the confirmation message carries the
\* mode-selection inline keyboard, with the checkmark on the new mode only.
C13_ConfirmationKeyboard ==
    [][\A h \in Handlers, c \in Chats, m \in RegisteredModes :
         (/\ pc[h] = "await_answer"
          /\ pc'[h] = "await_send"
          /\ upd[h] = CallbackUpdate(c, TRUE, <<"mode", m>>)) =>
             LastOf(outbox'[h]).reply_markup =
                 << [inline_keyboard |->
                       [i \in 1..4 |->
                          << [text |-> IF ModeOrder[i] = m
                                       THEN <<"[check] ", Capitalised[ModeOrder[i]]>>
                                       ELSE <<Capitalised[ModeOrder[i]]>>,
                              callback_data |-> <<"mode", ModeOrder[i]>>] >>]] >>
      ]_vars

\* whether a button label starts with the checkmark
Checked(button) == Len(button.text) >= 1 /\ button.text[1] = "[check] "

\* C14: the keyboard sent for /mode (or for the mode-button label) has one
\* row of one button per registered mode, with payload mode:<name> and the
\* capitalised name as label; exactly the button of the chat's effective mode
\* (the default when none is stored) carries the checkmark; neither history
\* nor mode changes.
C14_ModeKeyboard ==
    [][\A h \in Handlers, c \in Chats, t \in {<<"/mode">>, <<"[gear] Mode">>} :
         (Resumed(h) /\ upd[h] = MessageUpdate(c, TRUE, t)) =>
             LET p == LastOf(outbox'[h])
                 kb == p.reply_markup[1].inline_keyboard
                 effective == IF c \in DOMAIN user_modes THEN user_modes[c] ELSE "general"
             IN  /\ p.method = "sendMessage"
                 /\ p.chat_id = c
                 /\ Len(p.reply_markup) = 1
                 /\ DOMAIN p.reply_markup[1] = {"inline_keyboard"}
                 /\ Len(kb) = Cardinality(RegisteredModes)
                 /\ \A i \in 1..Len(kb) : Len(kb[i]) = 1
                 /\ \A m \in RegisteredModes :
                       \E i \in 1..Len(kb) : kb[i][1].callback_data = <<"mode", m>>
                 /\ \A i \in 1..Len(kb) :
                       LET m == kb[i][1].callback_data[2] IN
                       /\ Checked(kb[i][1]) <=> (m = effective)
                       /\ kb[i][1].text[Len(kb[i][1].text)] = Capitalised[m]
                 /\ Cardinality({i \in 1..Len(kb) : Checked(kb[i][1])}) = 1
                 /\ conversations' = conversations
                 /\ user_modes' = user_modes
      ]_vars

\* the mode button was pressed in a chat whose mode is fitness: the third row
\* carries the checkmark
C14_Witness ==
    \E h \in Handlers :
        /\ pc[h] = "done"
        /\ upd[h] = MessageUpdate("chatA", TRUE, <<"[gear] Mode">>)
        /\ Get(user_modes, "chatA", None) = "fitness"
        /\ LastOf(outbox[h]).reply_markup[1].inline_keyboard[3][1].text
               = <<"[check] ", "Fitness">>
        /\ LastOf(outbox[h]).reply_markup[1].inline_keyboard[1][1].text = <<"General">>

\* C15: a text that is the label of the reset shortcut button clears the
\* chat's history, keeps its mode, is not appended to the history and is not
\* sent to the completion service.
C15_ResetButton ==
    [][\A h \in Handlers, c \in Chats :
         (Resumed(h) /\ upd[h] = MessageUpdate(c, TRUE, main_keyboard.keyboard[1][2].text)) =>
             /\ Get(conversations', c, <<>>) = <<>>
             /\ user_modes' = user_modes
             /\ oai_calls'[h] = <<>>
      ]_vars

\* handler h makes the completion call / the call of handler h ends
Called(h) == pc[h] = "await_typing" /\ pc'[h] = "in_completion"
Returned(h) == pc[h] = "in_completion" /\ pc'[h] = "await_send"

\* the system prompt of each registered mode
PromptOf ==
    [m \in RegisteredModes |->
        CASE m = "general" -> "You are a helpful, concise assistant for everyday questions."
          [] m = "restaurant" -> "You are a restaurant assistant. Help users find restaurants, suggest dishes, and answer politely."
          [] m = "fitness" -> "You are a friendly fitness coach. Give workout routines, diet tips, and motivational advice."
          [] m = "realestate" -> "You are a professional real estate agent. Provide property suggestions, buying/selling advice, and market insights."]

\* C16: every request to the completion service is the system prompt of the
\* chat's effective mode at that moment followed by the chat's stored history,
\* which has at most 20 entries and ends with the user text of this update;
\* the reply sent afterwards is labelled with that same mode.
C16_CompletionRequest ==
    [][\A h \in Handlers, c \in Chats :
         LET effective == IF c \in DOMAIN user_modes THEN user_modes[c] ELSE "general" IN
         /\ (Called(h) /\ upd[h].msg_chat = c) =>
                LET msgs == LastOf(oai_calls'[h]).messages IN
                /\ Len(oai_calls'[h]) = Len(oai_calls[h]) + 1
                /\ msgs[1] = [role |-> "system", content |-> <<PromptOf[effective]>>]
                /\ Tail(msgs) = Get(conversations', c, <<>>)
                /\ Len(Tail(msgs)) <= 20
                /\ LastOf(msgs) = [role |-> "user", content |-> upd[h].text]
         /\ (Returned(h) /\ upd[h].msg_chat = c) =>
                /\ LastOf(oai_calls'[h]).messages = LastOf(oai_calls[h]).messages
                /\ LastOf(oai_calls[h]).messages[1].content = <<PromptOf[effective]>>
                /\ LastOf(outbox'[h]).text[2] = Capitalised[effective]
      ]_vars

\* a turn in fitness mode on a full history was answered: the request had the
\* fitness prompt and the 20 trimmed entries, the reply is labelled Fitness
C16_Witness ==
    \E h \in Handlers :
        /\ pc[h] = "await_send"
        /\ upd[h] = MessageUpdate("chatA", TRUE, <<"hello">>)
        /\ Len(oai_calls[h]) = 1
        /\ Len(oai_calls[h][1].messages) = 21
        /\ oai_calls[h][1].messages[1].content = <<PromptOf["fitness"]>>
        /\ oai_calls[h][1].messages[2].role = "assistant"
        /\ LastOf(outbox[h]).text[2] = "Fitness"


\* C17: within a turn the typing indicator is sent first, then the user entry is
\* recorded, then the completion call is made, then the assistant entry is
\* recorded, then the reply is sent; the text of the sent reply is the label
\* followed by the content of the assistant entry that was just recorded, and a
\* failure of the reply send leaves both entries in the history.
C17_TurnOrder ==
    [][\A h \in Handlers, c \in Chats :
         /\ (Called(h) /\ upd[h].msg_chat = c) =>
                /\ outbox'[h] = <<send_typing(c)>>
                /\ outbox[h] = <<send_typing(c)>>
                /\ oai_calls[h] = <<>>
                /\ LastOf(conversations'[c]) = [role |-> "user", content |-> upd[h].text]
                /\ appended'[c] = Append(appended[c], [role |-> "user", content |-> upd[h].text])
         /\ (Returned(h) /\ upd[h].msg_chat = c) =>
                LET recorded == LastOf(conversations'[c]) IN
                /\ LastOf(conversations[c]) = [role |-> "user", content |-> upd[h].text]
                /\ recorded.role = "assistant"
                /\ appended'[c] = Append(appended[c], recorded)
                /\ conversations'[c][Len(conversations'[c]) - 1] =
                       [role |-> "user", content |-> upd[h].text]
                /\ Len(outbox'[h]) = 2
                /\ outbox'[h][1] = outbox[h][1]
                /\ outbox'[h][2].method = "sendMessage"
                /\ outbox'[h][2].text = <<"*[", outbox'[h][2].text[2], " Mode]*">> \o recorded.content
         /\ (pc[h] = "await_send" /\ pc'[h] = "error" /\ oai_calls[h] # <<>>
               /\ upd[h].msg_chat = c) =>
                /\ conversations' = conversations
                /\ appended' = appended
      ]_vars

\* the reply send of a turn failed and both entries of the turn are stored
C17_Witness ==
    \E h \in Handlers :
        /\ pc[h] = "error"
        /\ Len(oai_calls[h]) = 1
        /\ Len(outbox[h]) = 2
        /\ LET hist == conversations[upd[h].msg_chat] IN
           /\ hist[Len(hist) - 1] = [role |-> "user", content |-> upd[h].text]
           /\ LastOf(hist) = [role |-> "assistant",
                              content |-> bot_reply_of(oai_calls[h][1].outcome)]


\* the entries of a history alternate user, assistant, starting with role first
RECURSIVE Alternates(_, _)
Alternates(hist, first) ==
    \/ hist = <<>>
    \/ /\ Head(hist).role = first
       /\ Alternates(Tail(hist), IF first = "user" THEN "assistant" ELSE "user")

\* C18: whenever handlers other than the running one can observe the state (no
\* handler is inside the completion call), every chat's history has even length
\* and alternates user, assistant from a user entry; and while a handler is
\* inside the completion call the only step taken is the end of that call, so
\* no reset, mode change or append of another handler separates the two appends
\* of a turn.
C18_TurnsAtomic ==
    /\ [] ((\A h \in Handlers : pc[h] # "in_completion") =>
              \A c \in Chats : /\ Len(Hist(c)) % 2 = 0
                               /\ Alternates(Hist(c), "user"))
    /\ [][\A h \in Handlers :
            pc[h] = "in_completion" =>
               /\ pc'[h] = "await_send"
               /\ \A g \in Handlers \ {h} : pc'[g] = pc[g] /\ outbox'[g] = outbox[g]
               /\ user_modes' = user_modes
               /\ \E e \in {conversations'[upd[h].msg_chat]} :
                     /\ LastOf(e).role = "assistant"
                     /\ \A c \in Chats \ {upd[h].msg_chat} : Hist(c)' = Hist(c)
         ]_vars

\* two handlers of the same chat, both past their typing await at the same
\* time, have each run a whole turn and the chat's history holds both turns
C18_Witness ==
    \E c \in Chats :
        /\ \A h \in Handlers : /\ upd[h].msg_chat = c
                               /\ pc[h] = "await_send"
                               /\ Len(oai_calls[h]) = 1
        /\ Len(appended[c]) = 4
        /\ Len(Hist(c)) = 4


\* the chat an update is about
ChatOf(u) == IF u.cq THEN u.cq_chat ELSE u.msg_chat

\* chat b has the same history and the same mode, stored or absent, after the step
SameChatState(b) ==
    /\ (b \in DOMAIN conversations') = (b \in DOMAIN conversations)
    /\ (b \in DOMAIN conversations => conversations'[b] = conversations[b])
    /\ (b \in DOMAIN user_modes') = (b \in DOMAIN user_modes)
    /\ (b \in DOMAIN user_modes => user_modes'[b] = user_modes[b])

\* C19: every step of a handler that handles an update for chat A, whatever the
\* other handlers are doing, leaves the stored history and the stored mode of
\* every other chat B as they were.
C19_OtherChatsUntouched ==
    [][\A h \in Handlers :
         pc'[h] # pc[h] =>
            \A b \in Chats \ {ChatOf(upd'[h])} : SameChatState(b)
      ]_vars

\* chatB was reset while chatA's full history and fitness mode stayed in place
C19_Witness ==
    \E h \in Handlers :
        /\ upd[h] = MessageUpdate("chatB", TRUE, <<"/reset">>)
        /\ pc[h] = "done"
        /\ Hist("chatA") = Turns(MAX_TURNS)
        /\ Get(user_modes, "chatA", None) = "fitness"
        /\ "chatB" \notin DOMAIN conversations
        /\ \E g \in Handlers \ {h} : ChatOf(upd[g]) = "chatA" /\ pc[g] = "await_send"


\* a message of a chat whose text is none of /start, /reset, /mode or the
\* mode-button label
IsFreeFormMessage(u) ==
    /\ ~u.cq
    /\ u.msg
    /\ u.msg_chat # None
    /\ u.has_text
    /\ u.text \in FreeTexts

\* handler h has got past its typing indicator
PastTyping(h) ==
    \/ pc[h] \in {"in_completion", "await_send", "done"}
    \/ pc[h] = "error" /\ Len(outbox[h]) = 2

\* C20: a handler calls the completion service exactly once for a free-form
\* text message (once it is past the typing indicator, and never a second
\* time), and never for /start, /reset, /mode, the mode-button label, a
\* non-text message, a callback query or an update without a message; no step
\* of a handler of those updates makes any history longer.
C20_OneCallPerFreeText ==
    /\ [] (\A h \in Handlers :
              pc[h] # "idle" =>
                 /\ Len(oai_calls[h]) <= 1
                 /\ (IsFreeFormMessage(upd[h]) /\ PastTyping(h)) => Len(oai_calls[h]) = 1
                 /\ ~IsFreeFormMessage(upd[h]) => oai_calls[h] = <<>>)
    /\ [][\A h \in Handlers :
            (pc'[h] # pc[h] /\ ~IsFreeFormMessage(upd'[h])) =>
               /\ \A c \in DOMAIN conversations' : Len(conversations'[c]) <= Len(Hist(c))
               /\ \A c \in Chats : Len(appended'[c]) <= Len(appended[c])
         ]_vars

\* one handler answered a free-form text with one call while the other answered
\* the mode-button label without any call
C20_Witness ==
    \E h \in Handlers, g \in Handlers :
        /\ upd[h] = MessageUpdate("chatA", TRUE, <<"hello">>)
        /\ pc[h] = "done"
        /\ Len(oai_calls[h]) = 1
        /\ upd[g] = MessageUpdate("chatA", TRUE, <<"[gear] Mode">>)
        /\ pc[g] = "done"
        /\ oai_calls[g] = <<>>
        /\ Len(appended["chatA"]) = 2

====
